---- MODULE Spec2Model ----
(***************************************************************************)
(* A model of vargrest/auxiliary/curvefit.py: the grid fit fit_3d_field    *)
(* with its quality measure, and find_dominant_direction.                  *)
(*                                                                         *)
(* Reals are modelled exactly: a cell is a record [nan, v] (v an integer), *)
(* a coordinate is a fraction [n, d], and a quality value is a fraction    *)
(* tagged "fin", or one of "nan", "inf", "ninf" (IEEE results of x/0).     *)
(* Medians of integers are half-integers, so they are carried doubled      *)
(* (the names ending in 2).                                                *)
(***************************************************************************)
EXTENDS Integers, Sequences, FiniteSets, TLC

\* Largest axis length of an observation grid.
MaxN == 4
\* Largest length of par_guess.
MaxPar == 2
\* Largest horizontal extent (nx, ny) of a variogram map.
MaxMap == 4
\* Largest vertical extent nz of a 3D variogram map.
MaxNz == 3

VARIABLES
    pc,            \* position in fit_3d_field: call, solve, quality, done, raised, idle
    array,         \* the observations, flat in C (ravel) order, index 0..N-1
    shape,         \* <<nx, ny, nz>>
    par_guess,     \* the initial parameter guess (length M)
    indep_data,    \* the coordinate triples handed to func, one per retained cell
    dep_data,      \* the retained observations
    not_nan,       \* the flat indices retained
    solver_calls,  \* how many times curve_fit was invoked
    popt,          \* the returned parameter vector
    par_est,       \* func(indep_data, *popt), one value per retained cell
    top_err,       \* contribution 1 per scope
    sub_err,       \* contribution 2 per scope
    contrib1,      \* the contribution-1 cell sets per scope
    quality        \* the returned QualityMeasure

fitvars == <<pc, array, shape, par_guess, indep_data, dep_data, not_nan,
             solver_calls, popt, par_est, top_err, sub_err, contrib1, quality>>

VARIABLES
    dpc,             \* position in find_dominant_direction: call, integrate, select, done, raised, idle
    variogram_map,   \* [ndim, shape, planes]: planes[k][i][j], one plane for a 2D map
    grid_resolution, \* <<dx, dy>>
    g,               \* the collapsed 2D map g[i][j]
    gg,              \* gg[a][l]: the interpolated value at lag l of candidate azimuth a
    integrals,       \* integrals[a]: the trapezoidal integral of candidate a
    azimuth          \* the returned azimuth as the fraction n/d of pi

dirvars == <<dpc, variogram_map, grid_resolution, g, gg, integrals, azimuth>>

vars == <<fitvars, dirvars>>

----------------------------------------------------------------------------
(* Values *)

Missing == [nan |-> TRUE, v |-> 0]
Val(x) == [nan |-> FALSE, v |-> x]
isnan(c) == c.nan

Abs(x) == IF x < 0 THEN -x ELSE x
Min(a, b) == IF a < b THEN a ELSE b
Max(a, b) == IF a > b THEN a ELSE b

RECURSIVE Gcd(_, _)
Gcd(a, b) == IF b = 0 THEN a ELSE Gcd(b, a % b)

\* A float: NaN, +inf, -inf or the fraction n/d in lowest terms, d > 0.
FNaN == [k |-> "nan", n |-> 0, d |-> 0]
FInf == [k |-> "inf", n |-> 0, d |-> 0]
FNegInf == [k |-> "ninf", n |-> 0, d |-> 0]
Fin(n, d) ==
    LET s == IF d < 0 THEN -1 ELSE 1
        c == Gcd(Abs(n), Abs(d))
    IN  [k |-> "fin", n |-> (s * n) \div c, d |-> (s * d) \div c]

\* a / b of two floats given as integers (numpy: 0/0 is nan, x/0 is +-inf).
Div(a, b) ==
    IF b = 0
    THEN IF a = 0 THEN FNaN ELSE IF a > 0 THEN FInf ELSE FNegInf
    ELSE Fin(a, b)

FLess(x, y) ==
    CASE x.k = "nan" \/ y.k = "nan" -> FALSE
      [] x.k = "inf" -> FALSE
      [] y.k = "ninf" -> FALSE
      [] x.k = "ninf" -> TRUE
      [] y.k = "inf" -> TRUE
      [] OTHER -> x.n * y.d < y.n * x.d

FAdd(x, y) ==
    CASE x.k = "nan" \/ y.k = "nan" -> FNaN
      [] x.k = "inf" -> IF y.k = "ninf" THEN FNaN ELSE FInf
      [] x.k = "ninf" -> IF y.k = "inf" THEN FNaN ELSE FNegInf
      [] y.k = "inf" -> FInf
      [] y.k = "ninf" -> FNegInf
      [] OTHER -> Fin(x.n * y.d + y.n * x.d, x.d * y.d)

FNeg(x) ==
    CASE x.k = "nan" -> FNaN
      [] x.k = "inf" -> FNegInf
      [] x.k = "ninf" -> FInf
      [] OTHER -> Fin(-x.n, x.d)

\* x * (p/q) for a positive fraction p/q.
FScale(x, p, q) == IF x.k = "fin" THEN Fin(x.n * p, x.d * q) ELSE x

\* Python's builtin min(a, b): b if b < a else a (a NaN first argument wins).
pymin(a, b) == IF FLess(b, a) THEN b ELSE a

----------------------------------------------------------------------------
(* Grid geometry *)

Size(sh) == sh[1] * sh[2] * sh[3]
Cells(sh) == 0 .. Size(sh) - 1
\* numpy's unravel of a C-order flat index.
Unravel(sh, r) == <<r \div (sh[2] * sh[3]), (r \div sh[3]) % sh[2], r % sh[3]>>

\* np.linspace(start, stop, num)[i] as a fraction.
linspace(start, stop, num, i) ==
    IF num = 1 THEN [n |-> start, d |-> 1]
    ELSE [n |-> start * (num - 1) + i * (stop - start), d |-> num - 1]

\* xmin = -int(nx / 2), xmax = -xmin, xv = np.linspace(xmin, xmax, nx)
AxisCoord(n, i) == linspace(-(n \div 2), n \div 2, n, i)

\* One column of np.vstack((xm.ravel(), ym.ravel(), zm.ravel())).
CoordOf(sh, r) ==
    LET ijk == Unravel(sh, r)
    IN  <<AxisCoord(sh[1], ijk[1]), AxisCoord(sh[2], ijk[2]), AxisCoord(sh[3], ijk[3])>>

----------------------------------------------------------------------------
(* Reductions *)

RECURSIVE SumUpTo(_, _)
\* t[0] + ... + t[n]
SumUpTo(t, n) == IF n < 0 THEN 0 ELSE t[n] + SumUpTo(t, n - 1)

\* The sum of t over the cells of S (S a subset of 0..n-1).
SumOver(S, t, n) == SumUpTo([r \in 0 .. n - 1 |-> IF r \in S THEN t[r] ELSE 0], n - 1)

\* The k-th smallest (k from 1) of the values t takes on S.
Kth(S, t, k) ==
    CHOOSE v \in {t[r] : r \in S} :
        /\ Cardinality({r \in S : t[r] < v}) < k
        /\ k <= Cardinality({r \in S : t[r] <= v})

\* Twice np.median of the values t takes on S; NaN for an empty S.
Median2(S, t) ==
    LET n == Cardinality(S)
    IN  IF n = 0 THEN Missing
        ELSE Val(Kth(S, t, (n + 1) \div 2) + Kth(S, t, n \div 2 + 1))

----------------------------------------------------------------------------
(* The quality measure *)

QualityMeasure(f, x, y, z) == [full |-> f, x_slice |-> x, y_slice |-> y, z_slice |-> z]

QualityMeasure_nan == QualityMeasure(FNaN, FNaN, FNaN, FNaN)

\* a[start:stop] on an axis of length n, for start >= 0 and stop <= 0.
SliceIndices(n, start, stop) ==
    LET lo == Min(start, n)
        hi == IF stop < 0 THEN Max(n + stop, 0) ELSE Min(stop, n)
    IN  lo .. hi - 1

\* center[px:-px, py:-py, pz:-pz] = True
CenterCell(sh, r) ==
    LET ijk == Unravel(sh, r)
    IN  \A a \in 1 .. 3 : ijk[a] \in SliceIndices(sh[a], sh[a] \div 4, -(sh[a] \div 4))

\* v < 0.5 * sigma_estimate, with sigma_estimate carried doubled.
BelowHalfSigma(c, sigma2) == ~isnan(c) /\ 4 * c.v < sigma2

find_contrib1_cells(empirical_3d, parametric_3d, sigma2, sh) ==
    {r \in Cells(sh) :
        /\ ~isnan(empirical_3d[r])
        /\ CenterCell(sh, r)
        /\ BelowHalfSigma(empirical_3d[r], sigma2)
        /\ BelowHalfSigma(parametric_3d[r], sigma2)}

find_contrib2_cells(empirical_3d, sh) == {r \in Cells(sh) : ~isnan(empirical_3d[r])}

\* np.abs(diff).sum() / np.abs(worst_case).sum() over the selected cells.
contribution_1(empirical_3d, parametric_3d, sigma2, S, n) ==
    LET diff == [r \in 0 .. n - 1 |-> Abs(empirical_3d[r].v - parametric_3d[r].v)]
        worst2 == [r \in 0 .. n - 1 |-> Abs(2 * empirical_3d[r].v - sigma2)]
    IN  Div(2 * SumOver(S, diff, n), SumOver(S, worst2, n))

\* np.median(np.abs(empirical - parametric)) / sigma_estimate over the selected cells.
contribution_2(empirical_3d, parametric_3d, sigma2, S, n) ==
    LET diff == [r \in 0 .. n - 1 |-> Abs(empirical_3d[r].v - parametric_3d[r].v)]
        med2 == Median2(S, diff)
    IN  IF isnan(med2) THEN FNaN ELSE Div(med2.v, sigma2)

\* The cell sets of the four scopes: index, and index on each centre line.
ScopeCells(index, sh) ==
    LET mx == sh[1] \div 2
        my == sh[2] \div 2
        mz == sh[3] \div 2
    IN  [full |-> index,
         x_slice |-> {r \in index : Unravel(sh, r)[2] = my /\ Unravel(sh, r)[3] = mz},
         y_slice |-> {r \in index : Unravel(sh, r)[1] = mx /\ Unravel(sh, r)[3] = mz},
         z_slice |-> {r \in index : Unravel(sh, r)[1] = mx /\ Unravel(sh, r)[2] = my}]

\* measure(empirical_3d[index], parametric_3d[index], sigma_estimate) for the
\* measure passed by name.
ApplyMeasure(measure, empirical_3d, parametric_3d, sigma2, S, n) ==
    IF measure = "contribution_1"
    THEN contribution_1(empirical_3d, parametric_3d, sigma2, S, n)
    ELSE contribution_2(empirical_3d, parametric_3d, sigma2, S, n)

MeasureScopes(empirical_3d, parametric_3d, sigma2, sc, n, measure) ==
    QualityMeasure(ApplyMeasure(measure, empirical_3d, parametric_3d, sigma2, sc.full, n),
                   ApplyMeasure(measure, empirical_3d, parametric_3d, sigma2, sc.x_slice, n),
                   ApplyMeasure(measure, empirical_3d, parametric_3d, sigma2, sc.y_slice, n),
                   ApplyMeasure(measure, empirical_3d, parametric_3d, sigma2, sc.z_slice, n))

calculate_quality_measure(empirical_3d, parametric_3d, sigma2, index, sh, measure) ==
    MeasureScopes(empirical_3d, parametric_3d, sigma2, ScopeCells(index, sh), Size(sh), measure)

calculate_quality_contribution_1(empirical_3d, parametric_3d, sigma2, sh) ==
    calculate_quality_measure(empirical_3d, parametric_3d, sigma2,
        find_contrib1_cells(empirical_3d, parametric_3d, sigma2, sh), sh, "contribution_1")

calculate_quality_contribution_2(empirical_3d, parametric_3d, sigma2, sh) ==
    calculate_quality_measure(empirical_3d, parametric_3d, sigma2,
        find_contrib2_cells(empirical_3d, sh), sh, "contribution_2")

\* 1.0 - (top * 0.75 + min(sub, 0.25))
aggregate_contributions(top, sub) ==
    FAdd(Fin(1, 1), FNeg(FAdd(FScale(top, 3, 4), pymin(sub, Fin(1, 4)))))

RECURSIVE Scatter(_, _, _, _)
\* f1[idx] = a, one assignment per retained cell from position p on.
Scatter(f1, a, idx, p) ==
    IF p > Len(idx) THEN f1
    ELSE Scatter([f1 EXCEPT ![idx[p]] = Val(a[p])], a, idx, p + 1)

\* f1 = np.full(array.size, nan); f1[not_nan] = a; f1.reshape(array.shape)
to_3d(a, idx, sh) == Scatter([r \in Cells(sh) |-> Missing], a, idx, 1)

\* sigma_est = np.median(dep_data), doubled.
SigmaEst2(dep) == Median2(1 .. Len(dep), dep).v

----------------------------------------------------------------------------
(* fit_3d_field *)

\* The grids the model checks: one value (or NaN) per region of the cube.
CellValues == {Missing, Val(-1), Val(0), Val(4)}
OuterValues == {Missing, Val(0), Val(4)}
\* The residuals func(x, *popt) - observation the model checks, per region:
\* an exact fit, a fit off by one everywhere, a fit off on the centre lines.
ResidualPatterns ==
    {[line |-> 0, inner |-> 0, outer |-> 0],
     [line |-> 1, inner |-> 1, outer |-> 1],
     [line |-> 4, inner |-> 0, outer |-> 1]}

OnCentreLine(sh, r) ==
    LET ijk == Unravel(sh, r)
        cx == ijk[1] = sh[1] \div 2
        cy == ijk[2] = sh[2] \div 2
        cz == ijk[3] = sh[3] \div 2
    IN  (cy /\ cz) \/ (cx /\ cz) \/ (cx /\ cy)

InMiddleHalf(n, i) == n \div 4 <= i /\ i < n - n \div 4

CellClass(sh, r) ==
    LET ijk == Unravel(sh, r)
    IN  IF OnCentreLine(sh, r) THEN "line"
        ELSE IF \A a \in 1 .. 3 : InMiddleHalf(sh[a], ijk[a]) THEN "inner"
        ELSE "outer"

Shapes == (1 .. MaxN) \X (1 .. MaxN) \X (1 .. MaxN)

Grids(sh) ==
    {[r \in Cells(sh) |-> pick[CellClass(sh, r)]] :
        pick \in {p \in [{"line", "inner", "outer"} -> CellValues] :
                     p["outer"] \in OuterValues}}

NoQuality == [full |-> {}, x_slice |-> {}, y_slice |-> {}, z_slice |-> {}]

FitIdle ==
    /\ pc = "idle"
    /\ array = <<>> /\ shape = <<1, 1, 1>> /\ par_guess = <<>>
    /\ indep_data = <<>> /\ dep_data = <<>> /\ not_nan = <<>>
    /\ solver_calls = 0 /\ popt = <<>> /\ par_est = <<>>
    /\ top_err = NoQuality /\ sub_err = NoQuality /\ contrib1 = NoQuality
    /\ quality = NoQuality

FitInit ==
    /\ pc = "call"
    /\ shape \in Shapes
    /\ array \in Grids(shape)
    /\ par_guess \in {[p \in 1 .. m |-> Val(1)] : m \in 1 .. MaxPar}
    /\ indep_data = <<>> /\ dep_data = <<>> /\ not_nan = <<>>
    /\ solver_calls = 0 /\ popt = <<>> /\ par_est = <<>>
    /\ top_err = NoQuality /\ sub_err = NoQuality /\ contrib1 = NoQuality
    /\ quality = NoQuality

\* np.all(np.isnan(dep_data))
AllNaN(a) == \A r \in DOMAIN a : isnan(a[r])

\* A fill with zeros instead of NaN.
full_like_zero(a) == [p \in 1 .. Len(a) |-> Val(0)]

\* np.full_like(par_guess, fill_value=np.nan)
full_like_nan(a) == [p \in 1 .. Len(a) |-> Missing]

\* np.squeeze(np.nonzero(~np.isnan(dep_data))), or the all-True mask: the flat
\* indices kept, ascending.
NotNan(a, n) == SelectSeq([p \in 1 .. n |-> p - 1], LAMBDA r : ~isnan(a[r]))

\* Lines 56-78: every cell is missing, so the fit returns NaNs at once.
ReturnNaN ==
    /\ UNCHANGED dirvars
    /\ pc = "call"
    /\ AllNaN(array)
    /\ popt' = full_like_nan(par_guess)
    /\ quality' = QualityMeasure_nan
    /\ pc' = "done"
    /\ UNCHANGED <<array, shape, par_guess, indep_data, dep_data, not_nan,
                   solver_calls, par_est, top_err, sub_err, contrib1>>

\* Lines 56-97: the coordinates and the NaN filter. The weights (lines 88-97)
\* are computed from the same coordinates and only handed to curve_fit.
Sample ==
    /\ UNCHANGED dirvars
    /\ pc = "call"
    /\ ~AllNaN(array)
    /\ LET idx == NotNan(array, Size(shape))
       IN  /\ not_nan' = idx
           /\ indep_data' = [p \in 1 .. Len(idx) |-> CoordOf(shape, idx[p])]
           /\ dep_data' = [p \in 1 .. Len(idx) |-> array[idx[p]].v]
    /\ pc' = "solve"
    /\ UNCHANGED <<array, shape, par_guess, solver_calls, popt, par_est,
                   top_err, sub_err, contrib1, quality>>

\* Line 100: curve_fit returns some parameter vector of the guess's length.
CurveFit ==
    /\ UNCHANGED dirvars
    /\ pc = "solve"
    /\ solver_calls' = solver_calls + 1
    /\ popt' = [p \in 1 .. Len(par_guess) |-> Val(1)]
    /\ pc' = "quality"
    /\ UNCHANGED <<array, shape, par_guess, indep_data, dep_data, not_nan,
                   par_est, top_err, sub_err, contrib1, quality>>

\* Line 100: curve_fit raises (no convergence, infeasible bounds).
CurveFitRaises ==
    /\ UNCHANGED dirvars
    /\ pc = "solve"
    /\ solver_calls' = solver_calls + 1
    /\ pc' = "raised"
    /\ UNCHANGED <<array, shape, par_guess, indep_data, dep_data, not_nan,
                   popt, par_est, top_err, sub_err, contrib1, quality>>

\* Lines 108-132: _calculate_quality_1, returning the contributions, the
\* contribution-1 cell sets and the QualityMeasure.
Combine(top, sub, cells) ==
    [top |-> top, sub |-> sub, cells |-> cells,
     quality |-> QualityMeasure(
         aggregate_contributions(top.full, sub.full),
         aggregate_contributions(top.x_slice, sub.x_slice),
         aggregate_contributions(top.y_slice, sub.y_slice),
         aggregate_contributions(top.z_slice, sub.z_slice))]

Contributions(dep_data_3d, par_est_3d, sigma2, sh) ==
    Combine(calculate_quality_contribution_1(dep_data_3d, par_est_3d, sigma2, sh),
            calculate_quality_contribution_2(dep_data_3d, par_est_3d, sigma2, sh),
            ScopeCells(find_contrib1_cells(dep_data_3d, par_est_3d, sigma2, sh), sh))

calculate_quality_1(est, dep, idx, sh) ==
    Contributions(to_3d(dep, idx, sh), to_3d(est, idx, sh), SigmaEst2(dep), sh)

\* The values func(indep_data, *popt) takes, given its residual per region.
Evaluate(res, dep, idx, sh) ==
    [p \in 1 .. Len(dep) |-> dep[p] + res[CellClass(sh, idx[p])]]

Finish(est, q) ==
    /\ par_est' = est
    /\ top_err' = q.top
    /\ sub_err' = q.sub
    /\ contrib1' = q.cells
    /\ quality' = q.quality

FinishWith(est) == Finish(est, calculate_quality_1(est, dep_data, not_nan, shape))

\* Lines 103-105: func is evaluated at the retained coordinates (any values:
\* func is the caller's), the quality is computed and the fit returns.
CalculateQuality ==
    /\ UNCHANGED dirvars
    /\ pc = "quality"
    /\ \E res \in ResidualPatterns : FinishWith(Evaluate(res, dep_data, not_nan, shape))
    /\ pc' = "done"
    /\ UNCHANGED <<array, shape, par_guess, indep_data, dep_data, not_nan,
                   solver_calls, popt>>

----------------------------------------------------------------------------
(* find_dominant_direction *)

n_angles == 24
n_dists == 21

\* 1000 * cos(a * pi / 23) and 1000 * sin(a * pi / 23) for a = 0 .. 23, rounded:
\* np.cos and np.sin of np.linspace(0.0, np.pi, n_angles) in fixed point.
CosTable == <<1000, 991, 963, 917, 854, 776, 683, 577, 460, 335, 203, 68,
              -68, -203, -335, -460, -577, -683, -776, -854, -917, -963, -991, -1000>>
SinTable == <<0, 136, 270, 398, 520, 631, 731, 817, 888, 942, 979, 998,
              998, 979, 942, 888, 817, 731, 631, 520, 398, 270, 136, 0>>
TrigScale == CosTable[1]

\* np.linspace(0.0, np.pi, n_angles)[i] as a fraction of pi.
Azimuths(i) == [n |-> i, d |-> n_angles - 1]
\* The literal 0.0.
ZeroAzimuth == [n |-> 0, d |-> 1]

MapCells(nx, ny) == (0 .. nx - 1) \X (0 .. ny - 1)

AllNaN2(m, nx, ny) == \A c \in MapCells(nx, ny) : isnan(m[c[1]][c[2]])

\* np.where(np.isnan(v), 0.0, v)
NanToZero(c) == IF isnan(c) THEN 0 ELSE c.v

\* w * x for a boolean w.
BoolTimes(w, x) == IF w THEN x ELSE 0

\* Lines 231-235: v01 = nan-to-zero(v0) + nan-to-zero(v1); w = ~isnan(v0) + ~isnan(v1),
\* a sum of two boolean arrays, which numpy computes as their logical or;
\* g = np.where(w > 0, w * v01, np.nan).
BlendCell(v0, v1) ==
    LET v01 == NanToZero(v0) + NanToZero(v1)
        w == ~isnan(v0) \/ ~isnan(v1)
    IN  IF w THEN Val(BoolTimes(w, v01)) ELSE Missing

\* Lines 226-237: the 2D map g of a 2D or 3D variogram map.
MiddleSlice(vm) ==
    LET nx == vm.shape[1]
        ny == vm.shape[2]
        nz == vm.shape[3]
    IN  IF vm.ndim = 3
        THEN IF nz % 2 = 1
             THEN [i \in 0 .. nx - 1 |-> [j \in 0 .. ny - 1 |-> vm.planes[nz \div 2][i][j]]]
             ELSE [i \in 0 .. nx - 1 |-> [j \in 0 .. ny - 1 |->
                      BlendCell(vm.planes[nz \div 2 - 1][i][j], vm.planes[nz \div 2][i][j])]]
        ELSE vm.planes[0]

\* Physical lengths: xlength = (nx - 1) * dx, ylength = (ny - 1) * dy.
Length(n, d) == (n - 1) * d

\* Coordinates are carried times 2 * (n_dists - 1) * TrigScale, so that
\* cos(azi) * hh[l] with hh = np.linspace(0, 0.5 * min(xlength, ylength), n_dists)
\* is the integer CosTable[a] * min(xlength, ylength) * l.
GridCoord(n, d, i) == (2 * i * d - Length(n, d)) * (n_dists - 1) * TrigScale
RayX(a, l, minlen) == CosTable[a + 1] * minlen * l
RayY(a, l, minlen) == SinTable[a + 1] * minlen * l

\* LinearNDInterpolator(hxxyy, gg) for data that is affine on a full rectangular
\* block of cells: the block (the convex hull of the points), the value at its
\* corner and the slopes per cell.
Interpolator(m, nx, ny) ==
    LET present == {c \in MapCells(nx, ny) : ~isnan(m[c[1]][c[2]])}
        i0 == CHOOSE i \in 0 .. nx - 1 :
                 (\E c \in present : c[1] = i) /\ (\A c \in present : c[1] >= i)
        i1 == CHOOSE i \in 0 .. nx - 1 :
                 (\E c \in present : c[1] = i) /\ (\A c \in present : c[1] <= i)
        j0 == CHOOSE j \in 0 .. ny - 1 :
                 (\E c \in present : c[2] = j) /\ (\A c \in present : c[2] >= j)
        j1 == CHOOSE j \in 0 .. ny - 1 :
                 (\E c \in present : c[2] = j) /\ (\A c \in present : c[2] <= j)
    IN  [i0 |-> i0, i1 |-> i1, j0 |-> j0, j1 |-> j1,
         v |-> m[i0][j0].v,
         a |-> IF i1 > i0 THEN m[i0 + 1][j0].v - m[i0][j0].v ELSE 0,
         b |-> IF j1 > j0 THEN m[i0][j0 + 1].v - m[i0][j0].v ELSE 0]

\* Qhull cannot triangulate points that all lie on one line.
Degenerate(itp) == itp.i0 = itp.i1 \/ itp.j0 = itp.j1

\* interpolator(x, y): NaN outside the convex hull, the affine value inside.
\* The value is carried times 2 * (n_dists - 1) * TrigScale * dx * dy.
Interpolate(itp, x, y, nx, ny, dx, dy) ==
    IF /\ GridCoord(nx, dx, itp.i0) <= x /\ x <= GridCoord(nx, dx, itp.i1)
       /\ GridCoord(ny, dy, itp.j0) <= y /\ y <= GridCoord(ny, dy, itp.j1)
    THEN Val(itp.v * 2 * (n_dists - 1) * TrigScale * dx * dy
             + itp.a * dy * (x - GridCoord(nx, dx, itp.i0))
             + itp.b * dx * (y - GridCoord(ny, dy, itp.j0)))
    ELSE Missing

RECURSIVE TrapezoidSum(_, _)
\* (y[0] + y[1]) + ... + (y[l-1] + y[l]); NaN if any term is NaN.
TrapezoidSum(y, l) ==
    IF l = 0 THEN Val(0)
    ELSE LET rest == TrapezoidSum(y, l - 1)
         IN  IF isnan(rest) \/ isnan(y[l - 1]) \/ isnan(y[l]) THEN Missing
             ELSE Val(rest.v + y[l - 1].v + y[l].v)

RECURSIVE TrapezoidNanSum(_, _)
\* The same sum with every term that holds a NaN left out.
TrapezoidNanSum(y, l) ==
    IF l = 0 THEN 0
    ELSE TrapezoidNanSum(y, l - 1)
         + (IF isnan(y[l - 1]) \/ isnan(y[l]) THEN 0 ELSE y[l - 1].v + y[l].v)

\* A trapezoid rule that omits the missing lags.
trapezoid_omitting(y) ==
    IF \A l \in DOMAIN y : isnan(y[l]) THEN Missing
    ELSE Val(TrapezoidNanSum(y, n_dists - 1))

\* scipy.integrate.trapezoid(y, x=hh) for equally spaced hh, in units of half
\* a lag step: (d * (y[1:] + y[:-1]) / 2.0).sum().
trapezoid(y) == TrapezoidSum(y, n_dists - 1)

AllNaNIntegrals(x) == \A a \in DOMAIN x : isnan(x[a])
AnyNaNIntegrals(x) == \E a \in DOMAIN x : isnan(x[a])

\* The last index of the least value that is not NaN.
nanargmin_last(x) ==
    CHOOSE a \in DOMAIN x :
        /\ ~isnan(x[a])
        /\ \A b \in DOMAIN x : ~isnan(x[b]) => x[a].v <= x[b].v
        /\ \A b \in DOMAIN x : (~isnan(x[b]) /\ b > a) => x[b].v > x[a].v

\* np.nanargmin: the first index of the least value that is not NaN.
nanargmin(x) ==
    CHOOSE a \in DOMAIN x :
        /\ ~isnan(x[a])
        /\ \A b \in DOMAIN x : ~isnan(x[b]) => x[a].v <= x[b].v
        /\ \A b \in DOMAIN x : (~isnan(x[b]) /\ b < a) => x[b].v > x[a].v

\* np.argmin: the first index of the least value (a NaN counts as least).
argmin(x) ==
    IF AnyNaNIntegrals(x)
    THEN CHOOSE a \in DOMAIN x : isnan(x[a]) /\ \A b \in DOMAIN x : b < a => ~isnan(x[b])
    ELSE nanargmin(x)

(* The maps the model checks *)

Resolutions == {<<1, 1>>, <<1, 2>>}
\* A plane's values c + a * i + b * j.
Fields == {[c |-> 1, a |-> 0, b |-> 0], [c |-> 1, a |-> 1, b |-> 0],
           [c |-> 1, a |-> -1, b |-> 0], [c |-> 1, a |-> 0, b |-> 1],
           [c |-> 1, a |-> 1, b |-> -1]}
\* The blocks of cells that hold data: all, without the border columns or
\* rows, the columns left of the centre, the columns from the centre on.
Blocks(nx, ny) ==
    {[i0 |-> 0, i1 |-> nx - 1, j0 |-> 0, j1 |-> ny - 1],
     [i0 |-> 1, i1 |-> nx - 2, j0 |-> 0, j1 |-> ny - 1],
     [i0 |-> 0, i1 |-> nx - 1, j0 |-> 1, j1 |-> ny - 2],
     [i0 |-> 0, i1 |-> nx \div 2 - 1, j0 |-> 0, j1 |-> ny - 1],
     [i0 |-> nx \div 2, i1 |-> nx - 1, j0 |-> 0, j1 |-> ny - 1]}

Plane(nx, ny, blk, f, k, missing) ==
    [i \in 0 .. nx - 1 |-> [j \in 0 .. ny - 1 |->
        IF /\ ~missing
           /\ blk.i0 <= i /\ i <= blk.i1
           /\ blk.j0 <= j /\ j <= blk.j1
        THEN Val(f.c + k + f.a * i + f.b * j)
        ELSE Missing]]

\* A map of nz planes; plane k holds the field raised by k, or no data at all
\* when k is in gone.
Map(ndim, nx, ny, nz, blk, f, gone) ==
    [ndim |-> ndim, shape |-> <<nx, ny, nz>>,
     planes |-> [k \in 0 .. nz - 1 |-> Plane(nx, ny, blk, f, k, k \in gone)]]

ValidBlocks(nx, ny) == {blk \in Blocks(nx, ny) : blk.i0 <= blk.i1 /\ blk.j0 <= blk.j1}

\* The two middle planes of a map of nz planes (one of them for nz = 1).
MiddlePlanes(nz) == {nz \div 2 - 1, nz \div 2} \cap (0 .. nz - 1)

Maps2D(nx, ny) ==
    {Map(2, nx, ny, 1, blk, f, gone) :
        blk \in ValidBlocks(nx, ny), f \in Fields, gone \in SUBSET {0}}

Maps3D(nx, ny, nz) ==
    {Map(3, nx, ny, nz, blk, f, gone) :
        blk \in ValidBlocks(nx, ny), f \in Fields, gone \in SUBSET MiddlePlanes(nz)}

\* A map of some other dimension; what it holds is never read.
Maps4D(nx, ny) ==
    {Map(4, nx, ny, 1, [i0 |-> 0, i1 |-> nx - 1, j0 |-> 0, j1 |-> ny - 1],
         [c |-> 1, a |-> 0, b |-> 0], {})}

Maps ==
    UNION {Maps2D(s[1], s[2]) \cup Maps4D(s[1], s[2])
               \cup UNION {Maps3D(s[1], s[2], nz) : nz \in 1 .. MaxNz} :
           s \in (2 .. MaxMap) \X (2 .. MaxMap)}

DirIdle ==
    /\ dpc = "idle"
    /\ variogram_map = <<>> /\ grid_resolution = <<1, 1>>
    /\ g = <<>> /\ gg = <<>> /\ integrals = <<>>
    /\ azimuth = ZeroAzimuth

DirInit ==
    /\ dpc = "call"
    /\ variogram_map \in Maps
    /\ grid_resolution \in Resolutions
    /\ g = <<>> /\ gg = <<>> /\ integrals = <<>>
    /\ azimuth = ZeroAzimuth

\* Lines 221-237: the map is 2D or 3D and g is its middle horizontal slice.
Collapse ==
    /\ UNCHANGED fitvars
    /\ dpc = "call"
    /\ variogram_map.ndim \in {2, 3}
    /\ g' = MiddleSlice(variogram_map)
    /\ dpc' = "collapsed"
    /\ UNCHANGED <<variogram_map, grid_resolution, gg, integrals, azimuth>>

\* Lines 238-239: NotImplementedError for any other dimension.
RaiseNotImplemented ==
    /\ UNCHANGED fitvars
    /\ dpc = "call"
    /\ variogram_map.ndim \notin {2, 3}
    /\ dpc' = "raised"
    /\ UNCHANGED <<variogram_map, grid_resolution, g, gg, integrals, azimuth>>

\* Lines 241-242: a map without data gives 0.0.
ReturnZero ==
    /\ UNCHANGED fitvars
    /\ dpc = "collapsed"
    /\ AllNaN2(g, variogram_map.shape[1], variogram_map.shape[2])
    /\ azimuth' = ZeroAzimuth
    /\ dpc' = "done"
    /\ UNCHANGED <<variogram_map, grid_resolution, g, gg, integrals>>

\* Line 266: LinearNDInterpolator raises when the points cannot be triangulated.
InterpolatorRaises ==
    /\ UNCHANGED fitvars
    /\ dpc = "collapsed"
    /\ ~AllNaN2(g, variogram_map.shape[1], variogram_map.shape[2])
    /\ Degenerate(Interpolator(g, variogram_map.shape[1], variogram_map.shape[2]))
    /\ dpc' = "raised"
    /\ UNCHANGED <<variogram_map, grid_resolution, g, gg, integrals, azimuth>>

\* gg_i of every candidate azimuth (lines 268-270).
Profiles(itp, nx, ny, dx, dy) ==
    [a \in 0 .. n_angles - 1 |-> [l \in 0 .. n_dists - 1 |->
        Interpolate(itp,
                    RayX(a, l, Min(Length(nx, dx), Length(ny, dy))),
                    RayY(a, l, Min(Length(nx, dx), Length(ny, dy))),
                    nx, ny, dx, dy)]]

IntegrateProfiles(pr) ==
    /\ gg' = pr
    /\ integrals' = [a \in 0 .. n_angles - 1 |-> trapezoid(pr[a])]

\* Lines 244-271: the interpolator and the integral of every candidate azimuth.
Integrate ==
    /\ UNCHANGED fitvars
    /\ dpc = "collapsed"
    /\ ~AllNaN2(g, variogram_map.shape[1], variogram_map.shape[2])
    /\ ~Degenerate(Interpolator(g, variogram_map.shape[1], variogram_map.shape[2]))
    /\ IntegrateProfiles(Profiles(
           Interpolator(g, variogram_map.shape[1], variogram_map.shape[2]),
           variogram_map.shape[1], variogram_map.shape[2],
           grid_resolution[1], grid_resolution[2]))
    /\ dpc' = "select"
    /\ UNCHANGED <<variogram_map, grid_resolution, g, azimuth>>

\* Lines 273-280: the azimuth of the smallest integral.
Select ==
    /\ UNCHANGED fitvars
    /\ dpc = "select"
    /\ azimuth' = IF AllNaNIntegrals(integrals) THEN ZeroAzimuth
                  ELSE IF AnyNaNIntegrals(integrals) THEN Azimuths(nanargmin(integrals))
                  ELSE Azimuths(argmin(integrals))
    /\ dpc' = "done"
    /\ UNCHANGED <<variogram_map, grid_resolution, g, gg, integrals>>

DirStart == DirInit /\ FitIdle

DirNext ==
    Collapse \/ RaiseNotImplemented \/ ReturnZero \/ InterpolatorRaises
        \/ Integrate \/ Select

DirSpec == DirStart /\ [][DirNext]_vars

FitStart == FitInit /\ DirIdle

FitNext == ReturnNaN \/ Sample \/ CurveFit \/ CurveFitRaises \/ CalculateQuality

FitSpec == FitStart /\ [][FitNext]_vars

----------------------------------------------------------------------------
(* Properties of fit_3d_field *)

Scopes == {"full", "x_slice", "y_slice", "z_slice"}

EveryCellMissing == \A r \in DOMAIN array : array[r].nan
Returned == pc = "done"

\* The model value at cell r of the grid (r a retained cell).
ParAt(r) == par_est[CHOOSE p \in 1 .. Len(not_nan) : not_nan[p] = r]

RECURSIVE SumSet(_, _)
SumSet(S, t) ==
    IF S = {} THEN 0
    ELSE LET r == CHOOSE x \in S : TRUE IN t[r] + SumSet(S \ {r}, t)

\* C1: for a grid whose every cell is missing, fit_3d_field returns without
\* calling curve_fit and without raising; the parameter vector is all NaN and as
\* long as par_guess, and the four fields of the QualityMeasure are NaN.
C1_AllMissingReturnsNaN ==
    (EveryCellMissing /\ pc # "call") =>
        /\ pc = "done"
        /\ solver_calls = 0
        /\ Len(popt) = Len(par_guess)
        /\ \A p \in 1 .. Len(popt) : popt[p].nan
        /\ \A s \in Scopes : quality[s].k = "nan"

C1_Witness == Returned /\ EveryCellMissing /\ Len(par_guess) > 1 /\ Size(shape) > 1

\* C3: when the model value equals the observation at every retained cell and
\* every scope has a contribution-1 cell, all four quality fields are exactly 1.
C3_ExactFitHasQualityOne ==
    (/\ Returned /\ ~EveryCellMissing
     /\ par_est = dep_data
     /\ \A s \in Scopes : contrib1[s] # {})
        => \A s \in Scopes : quality[s] = Fin(1, 1)

\* C4: the four quality fields of a returned fit are all NaN exactly when every
\* observation of the grid is missing.
C4_QualityNaNIffAllMissing ==
    Returned => ((\A s \in Scopes : quality[s].k = "nan") <=> EveryCellMissing)

AbsDiff(S) == [r \in S |-> Abs(array[r].v - ParAt(r))]
AbsWorst2(S) == [r \in S |-> Abs(2 * array[r].v - SigmaEst2(dep_data))]

\* C8: in every scope, when the sum of |empirical - model| and the sum of
\* |empirical - sigma_estimate| over the scope's contribution-1 cells are both
\* zero (so also when there is no such cell), contribution 1 of the scope is 0.
C8_ZeroOverZeroIsZero ==
    (Returned /\ ~EveryCellMissing) =>
        \A s \in Scopes :
            (/\ SumSet(contrib1[s], AbsDiff(contrib1[s])) = 0
             /\ SumSet(contrib1[s], AbsWorst2(contrib1[s])) = 0)
                => top_err[s] = Fin(0, 1)

\* C9: the coordinate given to index i of an axis of length n is the integer
\* i - floor(n / 2), on every axis and for every retained cell.
C9_CoordinateIsCentredIndex ==
    \A p \in 1 .. Len(indep_data) : \A a \in 1 .. 3 :
        indep_data[p][a].n
            = (Unravel(shape, not_nan[p])[a] - shape[a] \div 2) * indep_data[p][a].d

\* The contribution-1 cells as C10 describes them: not missing, in the middle
\* half of every axis, observation and model value below half the median.
DescribedCells ==
    {r \in Cells(shape) :
        /\ ~array[r].nan
        /\ \A a \in 1 .. 3 : InMiddleHalf(shape[a], Unravel(shape, r)[a])
        /\ 4 * array[r].v < SigmaEst2(dep_data)
        /\ 4 * ParAt(r) < SigmaEst2(dep_data)}

OnLine(r, a, b) ==
    /\ Unravel(shape, r)[a] = shape[a] \div 2
    /\ Unravel(shape, r)[b] = shape[b] \div 2

\* C10: the contribution-1 cells of the full scope are the cells that are not
\* missing, lie in floor(n/4) <= i < n - floor(n/4) on every axis and have
\* observation and model value below 0.5 * sigma_estimate; the x, y and z
\* scopes are those cells on the centre lines.
C10_Contrib1Cells ==
    (Returned /\ ~EveryCellMissing) =>
        /\ contrib1.full = DescribedCells
        /\ contrib1.x_slice = {r \in DescribedCells : OnLine(r, 2, 3)}
        /\ contrib1.y_slice = {r \in DescribedCells : OnLine(r, 1, 3)}
        /\ contrib1.z_slice = {r \in DescribedCells : OnLine(r, 1, 2)}

----------------------------------------------------------------------------
(* Properties of find_dominant_direction *)

Integrated == dpc \in {"select", "done"} /\ DOMAIN integrals # {}
Collapsed == DOMAIN g # {}
Candidates == 0 .. n_angles - 1
Lags == 0 .. n_dists - 1
Defined(a) == ~integrals[a].nan

\* C2: a returned azimuth a satisfies 0 <= a < pi.
C2_AzimuthBelowPi ==
    dpc = "done" => (0 <= azimuth.n /\ azimuth.n < azimuth.d)

\* C5: of a 3D map with odd nz, g is the plane nz // 2; with even nz each cell
\* of g is the average of the values present among the planes nz // 2 - 1 and
\* nz // 2: (v0 + v1) / 2, the one present, or missing.
C5_MiddleSliceIsAverage ==
    (Collapsed /\ variogram_map.ndim = 3) =>
        LET nz == variogram_map.shape[3]
            v0 == variogram_map.planes[nz \div 2 - 1]
            v1 == variogram_map.planes[nz \div 2]
        IN  IF nz % 2 = 1 THEN g = v1
            ELSE \A c \in MapCells(variogram_map.shape[1], variogram_map.shape[2]) :
                    LET p0 == v0[c[1]][c[2]]
                        p1 == v1[c[1]][c[2]]
                        r == g[c[1]][c[2]]
                    IN  CASE ~p0.nan /\ ~p1.nan -> ~r.nan /\ 2 * r.v = p0.v + p1.v
                          [] ~p0.nan /\ p1.nan -> r = p0
                          [] p0.nan /\ ~p1.nan -> r = p1
                          [] OTHER -> r.nan

\* C6: the result is 0.0 when g is entirely missing or every integral is
\* undefined; otherwise it is the candidate of the least defined integral, the
\* lowest-indexed one among equals.
C6_SelectsFirstMinimum ==
    dpc = "done" =>
        IF ~Integrated \/ (\A a \in Candidates : ~Defined(a))
        THEN azimuth.n = 0
        ELSE \E a \in Candidates :
                /\ azimuth = [n |-> a, d |-> n_angles - 1]
                /\ Defined(a)
                /\ \A b \in Candidates : Defined(b) => integrals[a].v <= integrals[b].v
                /\ \A b \in Candidates :
                       (Defined(b) /\ b < a) => integrals[b].v > integrals[a].v

C6_Witness ==
    /\ dpc = "done" /\ Integrated
    /\ \E a \in Candidates : ~Defined(a)
    /\ \E a, b \in Candidates :
          a < b /\ Defined(a) /\ Defined(b) /\ integrals[a] = integrals[b]
            /\ azimuth.n = a /\ a > 0

\* C7 as stated: an azimuth with some lag value present has a defined integral
\* (the missing lags being left out of its sum).
C7_MissingLagsOmitted ==
    Integrated =>
        \A a \in Candidates : (\E l \in Lags : ~gg[a][l].nan) => Defined(a)

RECURSIVE PairSum(_, _)
PairSum(y, l) == IF l = 0 THEN 0 ELSE PairSum(y, l - 1) + y[l - 1].v + y[l].v

\* C7 as amended: the integral of an azimuth is the trapezoidal sum over all
\* n_dists lag values, and it is undefined as soon as one lag value is missing.
C7_MissingLagUndefinesIntegral ==
    Integrated =>
        \A a \in Candidates :
            IF \E l \in Lags : gg[a][l].nan THEN ~Defined(a)
            ELSE Defined(a) /\ integrals[a].v = PairSum(gg[a], n_dists - 1)

C7_Witness ==
    /\ dpc = "done" /\ Integrated
    /\ \E a \in Candidates :
          /\ \E l \in Lags : gg[a][l].nan
          /\ \E l \in Lags : ~gg[a][l].nan
          /\ ~Defined(a)
    /\ \E a \in Candidates : Defined(a) /\ azimuth.n = a

====
